---- MODULE Spec2Model ----
(***************************************************************************)
(* A model of opine-sessions (src/src/sessions.ts, src/src/utils.ts):      *)
(* the synchronous SqliteStore and the worker-backed AsyncSqliteStore over *)
(* the table sessions(id TEXT UNIQUE NOT NULL, data TEXT NOT NULL).        *)
(*                                                                         *)
(* JavaScript values are tagged records, a JavaScript object is the        *)
(* sequence of its own properties in insertion order, and JSON text is the *)
(* sequence of its tokens, so JSON.stringify and JSON.parse are a real     *)
(* serialiser and a real parser.                                           *)
(***************************************************************************)
EXTENDS Integers, Sequences, FiniteSets, TLC

(***************************************************************************)
(* Bounds of the model.                                                    *)
(***************************************************************************)
MaxCalls == 2       \* calls issued in one behaviour of Spec
MaxSeqCalls == 2    \* calls issued in one behaviour of SpecSeq
MaxHandlerCalls == 2    \* ClientSession calls awaited in one behaviour of SpecHttp

Sids == {"s1", "s2"}
Keys == {"k1", "k2"}
StrVals == {"", "x"}
Strings == Keys \cup StrVals
Digits == <<"0", "1">>
Procs == {1, 2}
StoreKinds == {"sync", "async"}

(***************************************************************************)
(* JavaScript values.                                                      *)
(***************************************************************************)
JsVal(t, b, n, s, o) == [t |-> t, b |-> b, n |-> n, s |-> s, o |-> o]
JUndefined == JsVal("undefined", FALSE, 0, "", <<>>)
JNull == JsVal("null", FALSE, 0, "", <<>>)
JBool(b) == JsVal("boolean", b, 0, "", <<>>)
JNum(n) == JsVal("number", FALSE, n, "", <<>>)
JStr(s) == JsVal("string", FALSE, 0, s, <<>>)
JObj(o) == JsVal("object", FALSE, 0, "", o)
Prop(k, v) == [k |-> k, v |-> v]
EmptyDoc == <<>>

\* The values a caller stores: string, number, boolean, null, nested object.
Values ==
    {JStr(s) : s \in StrVals} \cup {JNum(n) : n \in 0..(Len(Digits) - 1)}
        \cup {JBool(b) : b \in BOOLEAN} \cup {JNull}
        \cup {JObj(<<>>), JObj(<<Prop("k1", JNum(0))>>)}

\* The values used where calls interleave.
RaceVals == {JNum(1), JStr("x")}

HasKey(obj, k) == \E i \in 1..Len(obj) : obj[i].k = k
IndexOf(obj, k) == CHOOSE i \in 1..Len(obj) : obj[i].k = k
\* obj[k]
GetProp(obj, k) == IF HasKey(obj, k) THEN obj[IndexOf(obj, k)].v ELSE JUndefined
\* obj[k] = v
\* (faulty variant: the other properties are dropped)
SetPropAlone(obj, k, v) == <<Prop(k, v)>>
SetProp(obj, k, v) ==
    IF HasKey(obj, k) THEN [obj EXCEPT ![IndexOf(obj, k)].v = v]
    ELSE Append(obj, Prop(k, v))
\* delete obj[k]
\* (faulty variant: the property is not removed)
DeleteKeepsAll(obj, k) == obj
DeleteProp(obj, k) == SelectSeq(obj, LAMBDA e : e.k # k)

\* ToBoolean(v) is false
Falsy(v) ==
    \/ v.t \in {"undefined", "null"}
    \/ v.t = "boolean" /\ ~v.b
    \/ v.t = "number" /\ v.n = 0
    \/ v.t = "string" /\ v.s = ""
\* v || null
OrNull(v) == IF Falsy(v) THEN JNull ELSE v

\* Structural (deep) equality of two values, property order ignored.
RECURSIVE DeepEqual(_, _)
DeepEqual(a, b) ==
    /\ a.t = b.t
    /\ a.b = b.b
    /\ a.n = b.n
    /\ a.s = b.s
    /\ {e.k : e \in {a.o[i] : i \in 1..Len(a.o)}} = {e.k : e \in {b.o[i] : i \in 1..Len(b.o)}}
    /\ \A i \in 1..Len(a.o) : DeepEqual(a.o[i].v, GetProp(b.o, a.o[i].k))
SameDoc(d, e) == DeepEqual(JObj(d), JObj(e))

(***************************************************************************)
(* JSON text: a sequence of tokens.                                        *)
(***************************************************************************)
Quote == "\""
StrTok(s) == Quote \o s \o Quote
NumTok(n) == Digits[n + 1]
IsStrTok(tok) == \E s \in Strings : StrTok(s) = tok
StrOfTok(tok) == CHOOSE s \in Strings : StrTok(s) = tok
IsNumTok(tok) == \E n \in 0..(Len(Digits) - 1) : NumTok(n) = tok
NumOfTok(tok) == CHOOSE n \in 0..(Len(Digits) - 1) : NumTok(n) = tok

\* JSON.stringify(v): members whose value is undefined are left out.
RECURSIVE StringifyValue(_)
RECURSIVE StringifyMembers(_, _, _)
StringifyMembers(o, i, first) ==
    IF i > Len(o) THEN <<>>
    ELSE IF o[i].v.t = "undefined" THEN StringifyMembers(o, i + 1, first)
    ELSE (IF first THEN <<>> ELSE <<",">>)
            \o <<StrTok(o[i].k), ":">> \o StringifyValue(o[i].v)
            \o StringifyMembers(o, i + 1, FALSE)
StringifyValue(v) ==
    CASE v.t = "null" -> <<"null">>
      [] v.t = "boolean" -> IF v.b THEN <<"true">> ELSE <<"false">>
      [] v.t = "number" -> <<NumTok(v.n)>>
      [] v.t = "string" -> <<StrTok(v.s)>>
      [] v.t = "object" -> <<"{">> \o StringifyMembers(v.o, 1, TRUE) \o <<"}">>
      [] OTHER -> <<>>
Stringify(doc) == StringifyValue(JObj(doc))

EmptyJson == <<"{", "}">>       \* the literal '{}'

\* JSON.parse(text): [ok, v]; ok = FALSE is the SyntaxError.
ParseFail == [ok |-> FALSE, v |-> JUndefined, next |-> 0]
RECURSIVE ParseValueAt(_, _)
RECURSIVE ParseMembersAt(_, _, _)
\* toks[i] is expected to start a member; acc holds the members read so far
ParseMembersAt(toks, i, acc) ==
    IF i + 2 > Len(toks) \/ ~IsStrTok(toks[i]) \/ toks[i + 1] # ":" THEN ParseFail
    ELSE LET r == ParseValueAt(toks, i + 2) IN
         IF ~r.ok \/ r.next > Len(toks) THEN ParseFail
         ELSE LET acc2 == SetProp(acc, StrOfTok(toks[i]), r.v) IN
              IF toks[r.next] = "}" THEN [ok |-> TRUE, v |-> JObj(acc2), next |-> r.next + 1]
              ELSE IF toks[r.next] = "," THEN ParseMembersAt(toks, r.next + 1, acc2)
              ELSE ParseFail
ParseValueAt(toks, i) ==
    IF i > Len(toks) THEN ParseFail
    ELSE LET tok == toks[i] IN
         CASE tok = "null" -> [ok |-> TRUE, v |-> JNull, next |-> i + 1]
           [] tok = "true" -> [ok |-> TRUE, v |-> JBool(TRUE), next |-> i + 1]
           [] tok = "false" -> [ok |-> TRUE, v |-> JBool(FALSE), next |-> i + 1]
           [] IsNumTok(tok) -> [ok |-> TRUE, v |-> JNum(NumOfTok(tok)), next |-> i + 1]
           [] IsStrTok(tok) -> [ok |-> TRUE, v |-> JStr(StrOfTok(tok)), next |-> i + 1]
           [] tok = "{" ->
                IF i + 1 <= Len(toks) /\ toks[i + 1] = "}"
                THEN [ok |-> TRUE, v |-> JObj(<<>>), next |-> i + 2]
                ELSE ParseMembersAt(toks, i + 1, <<>>)
           [] OTHER -> ParseFail
\* (faulty variant: text that does not parse is read as the empty document)
ParseLenient(toks) ==
    LET r == ParseValueAt(toks, 1) IN
    IF r.ok /\ r.next = Len(toks) + 1 THEN [ok |-> TRUE, v |-> r.v]
    ELSE [ok |-> TRUE, v |-> JObj(<<>>)]
Parse(toks) ==
    LET r == ParseValueAt(toks, 1) IN
    IF r.ok /\ r.next = Len(toks) + 1 THEN [ok |-> TRUE, v |-> r.v]
    ELSE [ok |-> FALSE, v |-> JUndefined]

\* text || '{}': the empty string is falsy
OrEmptyJson(text) == IF text = <<>> THEN EmptyJson ELSE text

(***************************************************************************)
(* The backend table sessions(id TEXT UNIQUE NOT NULL, data TEXT NOT NULL):*)
(* tbl[sid] is the sequence of the data of the rows whose id is sid.       *)
(***************************************************************************)
EmptyTable == [s \in Sids |-> <<>>]
\* SELECT data FROM sessions WHERE id = ?
\* (faulty variant: the WHERE clause matches no row)
SqlSelectNoMatch(tbl, sid) == <<>>
SqlSelect(tbl, sid) == tbl[sid]
\* id TEXT UNIQUE: an INSERT of an id that has a row fails
\* (faulty variant: the column is not declared UNIQUE)
SqlInsertNotUnique(tbl, sid) == TRUE
SqlInsertOk(tbl, sid) == Len(tbl[sid]) = 0
\* INSERT INTO sessions(id, data) VALUES(?, ?)
\* (faulty variant: the INSERT is not run)
SqlInsertDropped(tbl, sid, data) == tbl
SqlInsert(tbl, sid, data) == [tbl EXCEPT ![sid] = Append(@, data)]
\* UPDATE sessions SET data = ? WHERE id = ?
\* (faulty variants: the WHERE clause is missing; the UPDATE is not run; the
\* command inserts the row when no row matches)
SqlUpdateNoWhere(tbl, sid, data) == [s \in Sids |-> [i \in 1..Len(tbl[s]) |-> data]]
SqlUpsert(tbl, sid, data) ==
    [tbl EXCEPT ![sid] = IF Len(@) = 0 THEN <<data>> ELSE [i \in 1..Len(@) |-> data]]
SqlUpdateDropped(tbl, sid, data) == tbl
SqlUpdate(tbl, sid, data) == [tbl EXCEPT ![sid] = [i \in 1..Len(@) |-> data]]

(***************************************************************************)
(* A call of a Store method: its arguments, where it stands (pc), the      *)
(* document it holds, the text of the command it has in flight, its result *)
(* (ret, or err when it rejects) and the backend commands it has issued.   *)
(* read, rver and wver are history: the document getSession gave it, the   *)
(* number of writes the rows of its sid had seen when it read them, and    *)
(* that number after its own last write (-1: none).                        *)
(***************************************************************************)
Ops == {"createSession", "getSession", "get", "set", "delete", "clear"}
NewCall(op, sid, key, val) ==
    [op |-> op, sid |-> sid, key |-> key, val |-> val, pc |-> "idle",
     session |-> EmptyDoc, data |-> <<>>, ret |-> JUndefined, err |-> "", cmds |-> 0,
     read |-> EmptyDoc, rver |-> -1, wver |-> -1]
NoCall == NewCall("none", "", "", JUndefined)
Finished(c) == c.pc \in {"done", "failed"}
Running(c) == c.pc \in {"resume", "select", "insert", "update"}
Done(c, ret) == [c EXCEPT !.pc = "done", !.ret = ret, !.data = <<>>]
Failed(c, err) == [c EXCEPT !.pc = "failed", !.err = err, !.data = <<>>]
Out(tbl, c) == [tbl |-> tbl, c |-> c, rd |-> FALSE, wr |-> FALSE]
\* a step that ran a SELECT (rd) or an INSERT or UPDATE (wr)
OutRW(tbl, c, rd, wr) == [tbl |-> tbl, c |-> c, rd |-> rd, wr |-> wr]

(***************************************************************************)
(* SqliteStore: every backend command runs on the calling thread.          *)
(***************************************************************************)
\* getSession(sid): [tbl, ok, doc, err, cmds]
SyncGetSession(tbl, sid) ==
    LET rows == SqlSelect(tbl, sid) IN
    IF Len(rows) # 0
    THEN LET p == Parse(OrEmptyJson(rows[1])) IN
         IF p.ok /\ p.v.t = "object"
         THEN [tbl |-> tbl, ok |-> TRUE, doc |-> p.v.o, err |-> "", cmds |-> 1]
         ELSE [tbl |-> tbl, ok |-> FALSE, doc |-> EmptyDoc,
               err |-> IF p.ok THEN "type" ELSE "syntax", cmds |-> 1]
    ELSE IF SqlInsertOk(tbl, sid)
         THEN [tbl |-> SqlInsert(tbl, sid, EmptyJson), ok |-> TRUE, doc |-> EmptyDoc,
               err |-> "", cmds |-> 2]
         ELSE [tbl |-> tbl, ok |-> FALSE, doc |-> EmptyDoc, err |-> "constraint", cmds |-> 2]

\* The part of a method that runs when it is called, up to its first await.
SyncStart(tbl, c) ==
    CASE c.op = "createSession" ->
           IF SqlInsertOk(tbl, c.sid)
           THEN OutRW(SqlInsert(tbl, c.sid, EmptyJson),
                      Done([c EXCEPT !.cmds = 1], JStr(c.sid)), FALSE, TRUE)
           ELSE Out(tbl, Failed([c EXCEPT !.cmds = 1], "constraint"))
      [] c.op = "getSession" ->
           LET r == SyncGetSession(tbl, c.sid) IN
           IF r.ok
           THEN OutRW(r.tbl, Done([c EXCEPT !.cmds = r.cmds, !.session = r.doc,
                                            !.read = r.doc], JObj(r.doc)),
                      TRUE, r.cmds = 2)
           ELSE OutRW(r.tbl, Failed([c EXCEPT !.cmds = r.cmds], r.err), TRUE, FALSE)
      [] c.op \in {"get", "set", "delete"} ->
           \* const session = await this.getSession(sid)
           LET r == SyncGetSession(tbl, c.sid) IN
           OutRW(r.tbl, [c EXCEPT !.pc = "resume", !.session = r.doc, !.read = r.doc,
                                  !.err = r.err, !.cmds = r.cmds], TRUE, r.ok /\ r.cmds = 2)
      [] c.op = "clear" ->
           OutRW(SqlUpdate(tbl, c.sid, EmptyJson), Done([c EXCEPT !.cmds = 1], JUndefined),
                 FALSE, TRUE)

\* persist(sid, data)
\* (faulty variant: the document is not written back)
SyncPersistForgotten(tbl, sid, doc) == tbl
SyncPersist(tbl, sid, doc) == SqlUpdate(tbl, sid, Stringify(doc))

\* The part of get, set and delete after the await.
SyncResume(tbl, c) ==
    IF c.err # "" THEN Out(tbl, Failed(c, c.err))
    ELSE CASE c.op = "get" -> Out(tbl, Done(c, OrNull(GetProp(c.session, c.key))))
           [] c.op = "set" ->
                LET doc == SetProp(c.session, c.key, c.val) IN
                OutRW(SyncPersist(tbl, c.sid, doc),
                      Done([c EXCEPT !.session = doc, !.cmds = @ + 1], JUndefined), FALSE, TRUE)
           [] c.op = "delete" ->
                LET doc == DeleteProp(c.session, c.key) IN
                OutRW(SyncPersist(tbl, c.sid, doc),
                      Done([c EXCEPT !.session = doc, !.cmds = @ + 1], JUndefined), FALSE, TRUE)

(***************************************************************************)
(* AsyncSqliteStore: every backend command is sent to the worker and       *)
(* awaited; pc names the command in flight.                                *)
(***************************************************************************)
\* if (!this.initialised) throw ...
\* (faulty variant: the guard is missing)
GuardMissing(initd) == TRUE
Guard(initd) == initd

\* persist(sid, data): the call sends the UPDATE or throws
AsyncPersist(initd, c, doc) ==
    IF ~Guard(initd) THEN Failed(c, "uninitialised")
    ELSE [c EXCEPT !.pc = "update", !.session = doc, !.data = Stringify(doc), !.cmds = @ + 1]

\* What a method does with the document getSession returned.
AsyncAfterGetSession(initd, c0, doc) ==
    LET c == [c0 EXCEPT !.session = doc, !.read = doc] IN
    CASE c.op = "getSession" -> Done(c, JObj(doc))
      [] c.op = "get" -> Done(c, OrNull(GetProp(doc, c.key)))
      [] c.op = "set" -> AsyncPersist(initd, c, SetProp(doc, c.key, c.val))
      [] c.op = "delete" -> AsyncPersist(initd, c, DeleteProp(doc, c.key))

\* The part of a method that runs when it is called: the guard and the first send.
AsyncStart(initd, tbl, c) ==
    IF ~Guard(initd) THEN Out(tbl, Failed(c, "uninitialised"))
    ELSE CASE c.op = "createSession" ->
                Out(tbl, [c EXCEPT !.pc = "insert", !.data = EmptyJson, !.cmds = 1])
           [] c.op \in {"getSession", "get", "set", "delete"} ->
                Out(tbl, [c EXCEPT !.pc = "select", !.cmds = 1])
           [] c.op = "clear" ->
                Out(tbl, [c EXCEPT !.pc = "update", !.data = EmptyJson, !.cmds = 1])

\* The worker runs the command in flight and the method goes on to its next await.
AsyncDeliver(initd, tbl, c) ==
    CASE c.pc = "select" ->
           LET rows == SqlSelect(tbl, c.sid) IN
           IF Len(rows) # 0
           THEN LET p == Parse(OrEmptyJson(rows[1])) IN
                IF p.ok /\ p.v.t = "object"
                THEN OutRW(tbl, AsyncAfterGetSession(initd, c, p.v.o), TRUE, FALSE)
                ELSE OutRW(tbl, Failed(c, IF p.ok THEN "type" ELSE "syntax"), TRUE, FALSE)
           ELSE OutRW(tbl, [c EXCEPT !.pc = "insert", !.data = EmptyJson, !.cmds = @ + 1],
                      TRUE, FALSE)
      [] c.pc = "insert" ->
           IF ~SqlInsertOk(tbl, c.sid) THEN Out(tbl, Failed(c, "constraint"))
           ELSE IF c.op = "createSession"
                THEN OutRW(SqlInsert(tbl, c.sid, c.data), Done(c, JStr(c.sid)), FALSE, TRUE)
                ELSE OutRW(SqlInsert(tbl, c.sid, c.data),
                           AsyncAfterGetSession(initd, c, EmptyDoc), FALSE, TRUE)
      [] c.pc = "update" ->
           OutRW(SqlUpdate(tbl, c.sid, c.data), Done(c, JUndefined), FALSE, TRUE)

(***************************************************************************)
(* The session cookie: what getClient and destroy do with the request and  *)
(* the response.  A response is the sequence of the cookies set on it.     *)
(***************************************************************************)
ExpiryDays == 7
DayMs == 86400000       \* 864e5
\* new Date(ms)
JDate(ms) == JsVal("date", FALSE, ms, "", <<>>)
\* a || b
OrElse(a, b) == IF Falsy(a) THEN b ELSE a
\* obj?.k
OptProp(obj, k) == IF obj.t \in {"undefined", "null"} THEN JUndefined ELSE GetProp(obj.o, k)
\* { ...a, ...b }
RECURSIVE Spread(_, _)
Spread(a, b) ==
    IF b = <<>> THEN a ELSE Spread(SetProp(a, Head(b).k, Head(b).v), Tail(b))

NoReq == [open |-> FALSE, cookies |-> <<>>]
NoRes == [cookies |-> <<>>]
NoClient == [sid |-> "", store |-> "none"]
\* let { sid } = getCookies(req.headers)
CookieSid(rq) == GetProp(rq.cookies, "sid")
\* if (!sid)
\* (faulty variant: a session is created for every request)
NoSidAlways(sid) == TRUE
NoSid(sid) == Falsy(sid)

\* The options of the cookie getClient sets, given getClient's options argument:
\* the defaults, overridden by the members of options.cookie.
DefaultExpires(now) == JDate(now + ExpiryDays * DayMs)
CookieOptions(now, options) ==
    Spread(<<Prop("expires", DefaultExpires(now)),
             Prop("httpOnly", JBool(TRUE)),
             Prop("sameSite", JStr("Strict"))>>,
           OrElse(OptProp(options, "cookie"), JObj(<<>>)).o)
\* The same in the revision whose options are { expires, httpOnly, sameSite }.
CookieOptionsFlat(now, options) ==
    <<Prop("expires", OrElse(OptProp(options, "expires"), DefaultExpires(now))),
      Prop("httpOnly", OrElse(OptProp(options, "httpOnly"), JBool(TRUE))),
      Prop("sameSite", OrElse(OptProp(options, "sameSite"), JStr("Strict")))>>

\* res.cookie(name, value, options)
SetCookie(rs, name, value, options) ==
    [rs EXCEPT !.cookies = Append(@, [name |-> name, value |-> value, options |-> options])]
\* res.clearCookie(name): the value emptied, the expiry in the past
\* (faulty variant: the cookie is left alone)
ClearCookieForgotten(rs, name) == rs
ClearCookie(rs, name) == SetCookie(rs, name, "", <<Prop("expires", JDate(0))>>)

\* What a caller passes to getClient: the cookie settings it supplies.
Nows == {1, 2}
SuppliedExpires == JDate(5)
CookieSettings ==
    {<<>>,
     <<Prop("sameSite", JStr("Strict"))>>,
     <<Prop("httpOnly", JBool(TRUE)), Prop("sameSite", JStr("Lax"))>>,
     <<Prop("expires", SuppliedExpires), Prop("httpOnly", JBool(FALSE)),
       Prop("sameSite", JStr("None"))>>}
\* getClient(req, res), getClient(req, res, {}), getClient(req, res, { cookie: s })
OptionsOf(s) ==
    {JObj(<<Prop("cookie", JObj(s))>>)}
        \cup (IF s = <<>> THEN {JUndefined, JObj(<<>>)} ELSE {})
\* getClient(req, res), getClient(req, res, s)
OptionsFlatOf(s) == {JObj(s)} \cup (IF s = <<>> THEN {JUndefined} ELSE {})
\* The cookies a request may carry: none, sid with an empty value, sid with an id.
RequestCookies == {<<>>} \cup {<<Prop("sid", JStr(v))>> : v \in {""} \cup Sids}
\* The values a route handler stores.
HandlerVals == {JNum(0), JStr("x")}

(***************************************************************************)
(* State.                                                                  *)
(***************************************************************************)
VARIABLES
    store,          \* the Store the application was initialised with
    db,             \* db[kind]: the sessions table behind the store of that kind
    initialised,    \* AsyncSqliteStore.initialised
    initpc,         \* where the call of AsyncSqliteStore.init() stands
    calls,          \* calls[p]: the call running (or last run) in request flow p
    microq,         \* the microtask queue: flows resuming after an await, in order
    seen,           \* the sids used so far (randomUUID never returns one of them)
    ncalls,         \* the number of calls issued
    ver,            \* history: ver[sid] counts the writes to the rows of sid
    hist,           \* history of the sequential run (SpecSeq)
    req,            \* the request the route handler is serving (its cookies)
    res,            \* the response of that request (the cookies set on it)
    client,         \* the ClientSession getClient returned to the handler
    trace           \* history of the handler: what getClient was given

vars == <<store, db, initialised, initpc, calls, microq, seen, ncalls, ver, hist,
          req, res, client, trace>>

NoHist == [n |-> 0, pre2 |-> [k \in StoreKinds |-> EmptyTable],
           pre |-> [k \in StoreKinds |-> EmptyTable],
           last |-> [k \in StoreKinds |-> NoCall], prev |-> [k \in StoreKinds |-> NoCall]]

\* The document of a session as a map from every key to its value (undefined:
\* the key is absent).
Absent == [k \in Keys |-> JUndefined]
NoTrace == [now |-> 0, supplied |-> <<>>, ref |-> Absent, destroyed |-> FALSE,
            dsid |-> "", ddoc |-> Absent]
\* No request is being served.
NoHandler == req = NoReq /\ res = NoRes /\ client = NoClient /\ trace = NoTrace

\* ./sessions.db outlives the process: the table is empty, or holds the session
\* s1 an earlier run left behind, with the document two set calls gave it.
PrevRunDoc == <<Prop("k1", JNum(1)), Prop("k2", JStr("x"))>>
PrevRunTables == {EmptyTable, [EmptyTable EXCEPT !["s1"] = <<Stringify(PrevRunDoc)>>]}
HasRow(tbl, sid) == Len(tbl[sid]) # 0
RowSids(tbl) == {s \in Sids : HasRow(tbl, s)}

\* After construction: no request has arrived, init() has not been called.
Init ==
    /\ store \in StoreKinds
    /\ \E t \in PrevRunTables :
          /\ db = [k \in StoreKinds |-> IF k = store THEN t ELSE EmptyTable]
          /\ seen = RowSids(t)
    /\ initialised = FALSE
    /\ initpc = "new"
    /\ calls = [p \in Procs |-> NoCall]
    /\ microq = <<>>
    /\ ncalls = 0
    /\ ver = [s \in Sids |-> 0]
    /\ hist = NoHist
    /\ NoHandler

\* The step result r of the call of sid, with the history stamps.
Stamp(r, sid) ==
    [r.c EXCEPT !.rver = IF r.rd THEN ver[sid] ELSE @,
                !.wver = IF r.wr THEN ver[sid] + 1 ELSE @]

\* A step of flow p with result r.
Apply(p, r, sid) ==
    /\ db' = [db EXCEPT ![store] = r.tbl]
    /\ calls' = [calls EXCEPT ![p] = Stamp(r, sid)]
    /\ ver' = IF r.wr THEN [ver EXCEPT ![sid] = @ + 1] ELSE ver

\* Flow p calls a Store method: the method runs up to its first await.
StartCall(p, op, sid, key, val) ==
    /\ ncalls < MaxCalls
    /\ ~Running(calls[p])
    /\ LET c == NewCall(op, sid, key, val)
           r == IF store = "sync" THEN SyncStart(db[store], c)
                ELSE AsyncStart(initialised, db[store], c)
       IN /\ Apply(p, r, sid)
          /\ microq' = IF r.c.pc = "resume" THEN Append(microq, p) ELSE microq
    /\ seen' = seen \cup {sid}
    /\ ncalls' = ncalls + 1
    /\ UNCHANGED <<store, initialised, initpc, hist, req, res, client, trace>>

CreateSession(p) ==
    \E id \in Sids \ seen : StartCall(p, "createSession", id, "", JUndefined)
GetSession(p) ==
    \E sid \in Sids : StartCall(p, "getSession", sid, "", JUndefined)
Get(p) ==
    \E sid \in Sids, key \in Keys : StartCall(p, "get", sid, key, JUndefined)
Set(p) ==
    \E sid \in Sids, key \in Keys, val \in RaceVals : StartCall(p, "set", sid, key, val)
Delete(p) ==
    \E sid \in Sids, key \in Keys : StartCall(p, "delete", sid, key, JUndefined)
Clear(p) ==
    \E sid \in Sids : StartCall(p, "clear", sid, "", JUndefined)

\* SqliteStore: the flow at the head of the microtask queue resumes after its
\* await (getSession returns a settled promise, so continuations run in the
\* order of the awaits).
Resume ==
    /\ microq # <<>>
    /\ LET p == Head(microq) IN Apply(p, SyncResume(db[store], calls[p]), calls[p].sid)
    /\ microq' = Tail(microq)
    /\ UNCHANGED <<store, initialised, initpc, seen, ncalls, hist, req, res, client, trace>>

\* AsyncSqliteStore: the worker runs the command flow p awaits and p goes on to
\* its next await.  Commands of different flows may be run in any order.
Deliver(p) ==
    /\ store = "async"
    /\ calls[p].pc \in {"select", "insert", "update"}
    /\ Apply(p, AsyncDeliver(initialised, db[store], calls[p]), calls[p].sid)
    /\ UNCHANGED <<store, initialised, initpc, microq, seen, ncalls, hist, req, res, client, trace>>

\* AsyncSqliteStore.init() is called: CREATE TABLE IF NOT EXISTS is sent.
InitCall ==
    /\ store = "async"
    /\ initpc = "new"
    /\ initpc' = "awaiting"
    /\ UNCHANGED <<store, db, initialised, calls, microq, seen, ncalls, ver, hist, req, res, client, trace>>

\* The worker has created the table: this.initialised = true.
InitDone ==
    /\ initpc = "awaiting"
    /\ initpc' = "done"
    /\ initialised' = TRUE
    /\ UNCHANGED <<store, db, calls, microq, seen, ncalls, ver, hist, req, res, client, trace>>

Next ==
    \/ InitCall
    \/ InitDone
    \/ \E p \in Procs : CreateSession(p)
    \/ \E p \in Procs : GetSession(p)
    \/ \E p \in Procs : Get(p)
    \/ \E p \in Procs : Set(p)
    \/ \E p \in Procs : Delete(p)
    \/ \E p \in Procs : Clear(p)
    \/ Resume
    \/ \E p \in Procs : Deliver(p)

Spec == Init /\ [][Next]_vars

(***************************************************************************)
(* SpecSeq: one caller that awaits every call before it issues the next,   *)
(* run against a SqliteStore and an AsyncSqliteStore side by side: the     *)
(* same calls, with the same ids, on tables that start equal.  hist keeps  *)
(* the last two calls (prev, last) and the tables before each (pre2, pre). *)
(***************************************************************************)
\* A SqliteStore method, called and awaited.
SyncAwait(r) == IF r.c.pc = "resume" THEN SyncResume(r.tbl, r.c) ELSE r
SyncRun(tbl, c) == SyncAwait(SyncStart(tbl, c))

\* An AsyncSqliteStore method, called and awaited: every command it sends is run
\* (a method sends three commands at most: SELECT, INSERT, UPDATE).
AsyncAwait(initd, r) ==
    IF Finished(r.c) THEN r ELSE AsyncDeliver(initd, r.tbl, r.c)
AsyncRun(initd, tbl, c) ==
    AsyncAwait(initd, AsyncAwait(initd, AsyncAwait(initd, AsyncStart(initd, tbl, c))))

InitSeq ==
    /\ store = "sync"       \* not read: both stores are driven
    /\ \E t \in PrevRunTables :
          /\ db = [k \in StoreKinds |-> t]
          /\ seen = RowSids(t)
          /\ hist = [NoHist EXCEPT !.pre = db, !.pre2 = db]
    /\ initialised = FALSE
    /\ initpc = "new"
    /\ calls = [p \in Procs |-> NoCall]
    /\ microq = <<>>
    /\ ncalls = 0
    /\ ver = [s \in Sids |-> 0]
    /\ NoHandler

\* await store.init()
SeqInit ==
    /\ initpc = "new"
    /\ initpc' = "done"
    /\ initialised' = TRUE
    /\ UNCHANGED <<store, db, calls, microq, seen, ncalls, ver, hist, req, res, client, trace>>

\* await store.op(sid, key, val) on both stores, once init() has been awaited
SeqCall(op, sid, key, val) ==
    /\ initpc = "done"
    /\ hist.n < MaxSeqCalls
    /\ \E rs \in {SyncRun(db["sync"], NewCall(op, sid, key, val))},
          ra \in {AsyncRun(initialised, db["async"], NewCall(op, sid, key, val))} :
          /\ db' = [k \in StoreKinds |-> IF k = "sync" THEN rs.tbl ELSE ra.tbl]
          /\ hist' = [n |-> hist.n + 1, pre2 |-> hist.pre, pre |-> db,
                      last |-> [k \in StoreKinds |-> IF k = "sync" THEN rs.c ELSE ra.c],
                      prev |-> hist.last]
    /\ seen' = seen \cup {sid}
    /\ UNCHANGED <<store, initialised, initpc, calls, microq, ncalls, ver, req, res, client, trace>>

SeqCreateSession == \E id \in Sids \ seen : SeqCall("createSession", id, "", JUndefined)
SeqGetSession == \E sid \in Sids : SeqCall("getSession", sid, "", JUndefined)
SeqGet == \E sid \in Sids, key \in Keys : SeqCall("get", sid, key, JUndefined)
SeqSet == \E sid \in Sids, key \in Keys, val \in Values : SeqCall("set", sid, key, val)
SeqDelete == \E sid \in Sids, key \in Keys : SeqCall("delete", sid, key, JUndefined)
SeqClear == \E sid \in Sids : SeqCall("clear", sid, "", JUndefined)

NextSeq ==
    \/ SeqInit
    \/ SeqCreateSession
    \/ SeqGetSession
    \/ SeqGet
    \/ SeqSet
    \/ SeqDelete
    \/ SeqClear

SpecSeq == InitSeq /\ [][NextSeq]_vars

(***************************************************************************)
(* SpecDamaged: SpecSeq on a sessions.db in which the data of the row of   *)
(* s1 is not valid JSON (the file was edited, or written by something      *)
(* else): the empty string, a truncated document, a document cut short     *)
(* after a member.                                                         *)
(***************************************************************************)
Truncated == <<"{">>
DamagedTexts == {<<>>, Truncated, <<"{", StrTok("k1"), ":", NumTok(1)>>}
InitDamaged ==
    /\ store = "sync"       \* not read: both stores are driven
    /\ \E text \in DamagedTexts :
          /\ db = [k \in StoreKinds |-> [EmptyTable EXCEPT !["s1"] = <<text>>]]
          /\ hist = [NoHist EXCEPT !.pre = db, !.pre2 = db]
    /\ seen = {"s1"}
    /\ initialised = FALSE
    /\ initpc = "new"
    /\ calls = [p \in Procs |-> NoCall]
    /\ microq = <<>>
    /\ ncalls = 0
    /\ ver = [s \in Sids |-> 0]
    /\ NoHandler

SpecDamaged == InitDamaged /\ [][NextSeq]_vars

(***************************************************************************)
(* SpecHttp: one route handler at a time.  A request arrives, the handler  *)
(* awaits getClient(req, res, options), awaits calls on the ClientSession  *)
(* it got, may call destroy(res), and sends the response.  calls[1] is the *)
(* Store call the handler awaited last.  trace keeps what getClient was    *)
(* given (now, supplied), the document of the handler's session as a map   *)
(* (ref), and the last destroy: the sid whose cookie it cleared, the       *)
(* document of that sid then (ddoc), both forgotten once the row of that   *)
(* sid is written again, and whether it was called in this request         *)
(* (destroyed).                                                            *)
(***************************************************************************)
DocOf(tbl, sid) ==
    IF Len(tbl[sid]) = 0 THEN Absent
    ELSE [k \in Keys |-> GetProp(Parse(OrEmptyJson(tbl[sid][1])).v.o, k)]
\* What the operations of the contract do to a document.
RefApply(doc, op, key, val) ==
    CASE op = "set" -> [doc EXCEPT ![key] = val]
      [] op = "delete" -> [doc EXCEPT ![key] = JUndefined]
      [] op = "clear" -> Absent
      [] OTHER -> doc
RefGet(doc, key) ==
    IF doc[key] \in {JUndefined, JNull, JBool(FALSE), JNum(0), JStr("")} THEN JNull
    ELSE doc[key]

\* A method of the application's Store, called and awaited.
StoreRun(c) ==
    IF store = "sync" THEN SyncRun(db[store], c) ELSE AsyncRun(initialised, db[store], c)

\* A request arrives with the cookies ck.
Request ==
    /\ ~req.open
    /\ \E ck \in RequestCookies : req' = [open |-> TRUE, cookies |-> ck]
    /\ res' = NoRes
    /\ UNCHANGED <<store, db, initialised, initpc, calls, microq, seen, ncalls, ver, hist,
                   client, trace>>

\* await getClient(req, res, options), where the cookie options getClient computes
\* from options are opts and the settings the caller supplied in options are s.
GetClientWith(opts, s, now) ==
    /\ req.open
    /\ client = NoClient
    /\ IF NoSid(CookieSid(req))
       THEN \E id \in Sids \ seen :
              \E r \in {StoreRun(NewCall("createSession", id, "", JUndefined))} :
                /\ db' = [db EXCEPT ![store] = r.tbl]
                /\ calls' = [calls EXCEPT ![1] = r.c]
                /\ seen' = seen \cup {id}
                /\ IF r.c.pc = "done"
                   THEN /\ res' = SetCookie(res, "sid", r.c.ret.s, opts)
                        /\ client' = [sid |-> r.c.ret.s, store |-> store]
                        /\ trace' = [trace EXCEPT !.now = now, !.supplied = s,
                                                  !.ref = DocOf(r.tbl, r.c.ret.s)]
                        /\ req' = req
                   ELSE \* createSession rejects, and so does getClient: the handler fails
                        /\ req' = NoReq
                        /\ res' = NoRes
                        /\ client' = NoClient
                        /\ trace' = [trace EXCEPT !.destroyed = FALSE]
       ELSE /\ client' = [sid |-> CookieSid(req).s, store |-> store]
            /\ trace' = [trace EXCEPT !.ref = DocOf(db[store], CookieSid(req).s)]
            /\ UNCHANGED <<db, calls, seen, req, res>>
    /\ UNCHANGED <<store, initialised, initpc, microq, ncalls, ver, hist>>

GetClient ==
    \E s \in CookieSettings, now \in Nows :
        \E options \in OptionsOf(s) : GetClientWith(CookieOptions(now, options), s, now)
GetClientFlat ==
    \E s \in CookieSettings, now \in Nows :
        \E options \in OptionsFlatOf(s) : GetClientWith(CookieOptionsFlat(now, options), s, now)

\* await session.<op>(key, val) on the ClientSession: store.<op>(this.sid, key, val)
ClientCall(op, key, val) ==
    /\ client # NoClient
    /\ ncalls < MaxHandlerCalls
    /\ \E r \in {StoreRun(NewCall(op, client.sid, key, val))} :
          /\ db' = [db EXCEPT ![store] = r.tbl]
          /\ calls' = [calls EXCEPT ![1] = r.c]
          /\ \E ref \in {IF r.c.pc = "done" THEN RefApply(trace.ref, op, key, val)
                           ELSE trace.ref} :
                trace' = IF r.tbl # db[store] /\ client.sid = trace.dsid
                         THEN [trace EXCEPT !.ref = ref, !.dsid = "", !.ddoc = Absent]
                         ELSE [trace EXCEPT !.ref = ref]
    /\ seen' = seen \cup {client.sid}
    /\ ncalls' = ncalls + 1
    /\ UNCHANGED <<store, initialised, initpc, microq, ver, hist, req, res, client>>

ClientGet == \E key \in Keys : ClientCall("get", key, JUndefined)
ClientSet == \E key \in Keys, val \in HandlerVals : ClientCall("set", key, val)
ClientDelete == \E key \in Keys : ClientCall("delete", key, JUndefined)
ClientClear == ClientCall("clear", "", JUndefined)

\* destroy(res), once in a request; the session it ends is the handler's.
Destroy ==
    /\ req.open
    /\ ~trace.destroyed
    /\ res' = ClearCookie(res, "sid")
    /\ \E sid \in {IF client # NoClient THEN client.sid
                   ELSE IF CookieSid(req).t = "string" THEN CookieSid(req).s ELSE ""} :
          trace' = [trace EXCEPT !.destroyed = TRUE, !.dsid = sid,
                                 !.ddoc = IF sid \in Sids THEN DocOf(db[store], sid)
                                          ELSE Absent]
    /\ UNCHANGED <<store, db, initialised, initpc, calls, microq, seen, ncalls, ver, hist,
                   req, client>>

\* The handler sends the response and returns.
Respond ==
    /\ req.open
    /\ req' = NoReq
    /\ res' = NoRes
    /\ client' = NoClient
    /\ calls' = [calls EXCEPT ![1] = NoCall]
    /\ trace' = [trace EXCEPT !.now = 0, !.supplied = <<>>, !.ref = Absent,
                              !.destroyed = FALSE]
    /\ UNCHANGED <<store, db, initialised, initpc, microq, seen, ncalls, ver, hist>>

NextHttp ==
    \/ InitCall
    \/ InitDone
    \/ Request
    \/ GetClient
    \/ GetClientFlat
    \/ ClientGet
    \/ ClientSet
    \/ ClientDelete
    \/ ClientClear
    \/ Destroy
    \/ Respond

SpecHttp == Init /\ [][NextHttp]_vars

(***************************************************************************)
(* Properties of sequentially awaited calls (SpecSeq).                     *)
(***************************************************************************)
Last(k) == hist.last[k]
Prev(k) == hist.prev[k]
\* the last call follows a call of op on the same sid (and key, for keyed calls)
Follows(k, op, lastOp) ==
    /\ hist.n >= 2
    /\ Prev(k).op = op
    /\ Last(k).op = lastOp
    /\ Last(k).sid = Prev(k).sid
    /\ Last(k).key # "" => Last(k).key = Prev(k).key
\* the document stored for sid, when sid has a row of valid JSON
RowDoc(tbl, sid) == Parse(OrEmptyJson(tbl[sid][1])).v.o

\* C1: set(sid, k, v) followed by get(sid, k) returns a value deep-equal to v, for
\* every stored value v, the falsy ones (false, 0, "") included.
C1_RoundTrip ==
    \A k \in StoreKinds :
        (Follows(k, "set", "get") /\ Prev(k).pc = "done")
            => (Last(k).pc = "done" /\ DeepEqual(Last(k).ret, Prev(k).val))

\* C4: get(sid, k) on a sid that has no row returns null without error and leaves
\* exactly one row for sid, holding the empty document.
C4_GetOrCreate ==
    \A k \in StoreKinds :
        (Last(k).op = "get" /\ ~HasRow(hist.pre[k], Last(k).sid))
            => /\ Last(k).pc = "done"
               /\ Last(k).err = ""
               /\ Last(k).ret = JNull
               /\ db[k][Last(k).sid] = <<EmptyJson>>
C4_Witness ==
    \A k \in StoreKinds :
        /\ Last(k).op = "get"
        /\ ~HasRow(hist.pre[k], Last(k).sid)
        /\ HasRow(db[k], Last(k).sid)
        /\ Last(k).pc = "done"

\* C5: when createSession completes the row of the sid it returns exists (with the
\* document {}), and a getSession(sid) issued next returns the empty document.
C5_CreateThenGetSession ==
    \A k \in StoreKinds :
        /\ Last(k).op = "createSession"
             => /\ Last(k).pc = "done"
                /\ Last(k).ret = JStr(Last(k).sid)
                /\ db[k][Last(k).sid] = <<EmptyJson>>
        /\ Follows(k, "createSession", "getSession")
             => /\ Last(k).pc = "done"
                /\ Last(k).ret = JObj(EmptyDoc)
                /\ HasRow(db[k], Last(k).sid)
C5_Witness ==
    \A k \in StoreKinds :
        /\ Follows(k, "createSession", "getSession")
        /\ Prev(k).pc = "done"
        /\ Last(k).sid = Prev(k).ret.s
        /\ Last(k).pc = "done"

\* C6: delete(sid, k) followed by get(sid, k) returns null, whether or not k was in
\* the document and whether or not sid had a row.
C6_DeleteThenGet ==
    \A k \in StoreKinds :
        Follows(k, "delete", "get")
            => (Prev(k).pc = "done" /\ Last(k).pc = "done" /\ Last(k).ret = JNull)
\* k was in the document before the delete
C6_Witness ==
    \A k \in StoreKinds :
        /\ Follows(k, "delete", "get")
        /\ HasRow(hist.pre2[k], Prev(k).sid)
        /\ HasKey(RowDoc(hist.pre2[k], Prev(k).sid), Prev(k).key)
        /\ Last(k).pc = "done"

\* C7: clear(sid) followed by getSession(sid) returns the empty document, whatever
\* was set before and also when sid has no row.
C7_ClearThenGetSession ==
    \A k \in StoreKinds :
        Follows(k, "clear", "getSession")
            => (Prev(k).pc = "done" /\ Last(k).pc = "done" /\ Last(k).ret = JObj(EmptyDoc))
\* the document held two keys before the clear
C7_Witness ==
    \A k \in StoreKinds :
        /\ Follows(k, "clear", "getSession")
        /\ HasRow(hist.pre2[k], Prev(k).sid)
        /\ Len(RowDoc(hist.pre2[k], Prev(k).sid)) = 2
        /\ Last(k).pc = "done"

\* C8: after init(), the same awaited calls give the same result or error on
\* AsyncSqliteStore and on SqliteStore, and the same table, at every step.
C8_AsyncMatchesSync ==
    /\ db["async"] = db["sync"]
    /\ hist.n >= 1 =>
         /\ Last("async").pc = Last("sync").pc
         /\ Last("async").ret = Last("sync").ret
         /\ Last("async").err = Last("sync").err
\* a set that had to create its row, after another call
C8_Witness ==
    /\ hist.n >= 2
    /\ Last("async").op = "set"
    /\ Last("async").pc = "done"
    /\ ~HasRow(hist.pre["async"], Last("async").sid)
    /\ db["async"][Last("async").sid] = <<Stringify(<<Prop(Last("async").key, Last("async").val)>>)>>

\* the documents of the sid of the last call, before that call and now
Before(k) == DocOf(hist.pre[k], Last(k).sid)
After(k) == DocOf(db[k], Last(k).sid)
\* the rows of the other sids are as they were before the last call
OthersKept(k) == \A s \in Sids \ {Last(k).sid} : db[k][s] = hist.pre[k][s]

\* C15: two consecutive getSession(sid) calls return structurally equal documents,
\* and the second leaves the table as it found it.
C15_GetSessionIdempotent ==
    \A k \in StoreKinds :
        Follows(k, "getSession", "getSession")
            => /\ Prev(k).pc = "done" /\ Last(k).pc = "done"
               /\ DeepEqual(Last(k).ret, Prev(k).ret)
               /\ db[k] = hist.pre[k]
\* both calls returned the document an earlier run had stored
C15_Witness ==
    \A k \in StoreKinds :
        /\ Follows(k, "getSession", "getSession")
        /\ Last(k).pc = "done"
        /\ Last(k).ret = JObj(PrevRunDoc)

\* C16: an awaited set(sid, k, v) leaves a document that maps k to v and every other
\* key to the value it had before; the row of sid holds the serialisation of that
\* whole document, and no other row is touched.
C16_SetChangesOnlyKey ==
    \A k \in StoreKinds :
        Last(k).op = "set"
            => /\ Last(k).pc = "done"
               /\ After(k)[Last(k).key] = Last(k).val
               /\ \A j \in Keys \ {Last(k).key} : After(k)[j] = Before(k)[j]
               /\ db[k][Last(k).sid] = <<Stringify(RowDoc(db[k], Last(k).sid))>>
               /\ OthersKept(k)
\* the value of a key was replaced and the other key, set earlier, was kept
C16_Witness ==
    \A k \in StoreKinds :
        /\ Last(k).op = "set"
        /\ Last(k).pc = "done"
        /\ Before(k)[Last(k).key] \notin {JUndefined, Last(k).val}
        /\ \E j \in Keys \ {Last(k).key} : After(k)[j] = JStr("x")

\* C17: an awaited delete(sid, k) completes without error; it removes k and keeps
\* every other key with its value; when k was absent the stored document is the
\* one stored before.
C17_DeleteAbsentIsNoOp ==
    \A k \in StoreKinds :
        Last(k).op = "delete"
            => /\ Last(k).pc = "done"
               /\ Last(k).err = ""
               /\ After(k)[Last(k).key] = JUndefined
               /\ \A j \in Keys \ {Last(k).key} : After(k)[j] = Before(k)[j]
               /\ (HasRow(hist.pre[k], Last(k).sid) /\ Before(k)[Last(k).key] = JUndefined)
                     => db[k] = hist.pre[k]
               /\ OthersKept(k)
\* the key was absent from a document that held another key
C17_Witness ==
    \A k \in StoreKinds :
        /\ Last(k).op = "delete"
        /\ Last(k).pc = "done"
        /\ HasRow(hist.pre[k], Last(k).sid)
        /\ Before(k)[Last(k).key] = JUndefined
        /\ Before(k) # Absent
        /\ After(k) = Before(k)

\* the row of the sid of the last call held text that is not valid JSON
WasMalformed(k) ==
    /\ Last(k).op \in {"getSession", "get", "set", "delete"}
    /\ HasRow(hist.pre[k], Last(k).sid)
    /\ hist.pre[k][Last(k).sid][1] \in DamagedTexts
\* the last call failed and wrote nothing
FailedUnwritten(k) ==
    /\ Last(k).pc = "failed"
    /\ Last(k).err = "syntax"
    /\ db[k] = hist.pre[k]
\* C18 as stated: when the data of the row of sid is not valid JSON text (the empty
\* string included), getSession, get, set and delete on sid fail, and the stored
\* text is neither read as an empty document nor overwritten.
C18_MalformedFails ==
    \A k \in StoreKinds : WasMalformed(k) => FailedUnwritten(k)
\* C18 as amended: when the data of the row of sid is a non-empty text that is not
\* valid JSON, getSession, get, set and delete on sid fail, and the stored text is
\* neither read as an empty document nor overwritten.
C18_MalformedNonEmptyFails ==
    \A k \in StoreKinds :
        (WasMalformed(k) /\ hist.pre[k][Last(k).sid][1] # <<>>) => FailedUnwritten(k)
\* a set on a row that holds a truncated document fails and the text stays
C18_Witness ==
    \A k \in StoreKinds :
        /\ Last(k).op = "set"
        /\ WasMalformed(k)
        /\ Last(k).err = "syntax"
        /\ db[k][Last(k).sid] = <<Truncated>>

\* The backend commands the methods send, one after another: the INSERT of
\* createSession, the UPDATE of clear; the SELECT of getSession, and its INSERT
\* when there is no row; for set and delete the UPDATE of persist as well.
Commands(op, hasRow) ==
    CASE op \in {"createSession", "clear"} -> 1
      [] op \in {"getSession", "get"} -> IF hasRow THEN 1 ELSE 2
      [] op \in {"set", "delete"} -> IF hasRow THEN 2 ELSE 3
\* C19 as stated: every operation sends exactly one backend command.
C19_OneCommand ==
    \A k \in StoreKinds : hist.n >= 1 => Last(k).cmds = 1
\* C19 as amended: every operation sends a bounded number of backend commands, one
\* after another: createSession and clear one; getSession and get one when sid has
\* a row and two when it has none; set and delete one more than getSession.
C19_BoundedCommands ==
    \A k \in StoreKinds :
        hist.n >= 1
            => /\ Last(k).pc = "done"
               /\ Last(k).cmds = Commands(Last(k).op, HasRow(hist.pre[k], Last(k).sid))
\* a set on a sid without a row: SELECT, INSERT, UPDATE
C19_Witness ==
    \A k \in StoreKinds :
        /\ Last(k).op = "set"
        /\ ~HasRow(hist.pre[k], Last(k).sid)
        /\ Last(k).cmds = 3

(***************************************************************************)
(* Properties of interleaved calls (Spec).                                 *)
(***************************************************************************)
Table == db[store]
\* p and q are completed set calls on one sid, with different keys, and each read
\* the document before the other wrote it
Raced(p, q) ==
    /\ p # q
    /\ calls[p].op = "set" /\ calls[q].op = "set"
    /\ calls[p].pc = "done" /\ calls[q].pc = "done"
    /\ calls[p].sid = calls[q].sid
    /\ calls[p].key # calls[q].key
    /\ calls[p].rver < calls[q].wver
    /\ calls[q].rver < calls[p].wver
\* the write of call q is the last write to the rows of its sid
LastWriter(q) == calls[q].wver = ver[calls[q].sid]

\* C2: when two set calls on one sid with different keys both read the document
\* before either writes, both complete without error and the stored document is
\* the snapshot of the later writer alone: at the key of the earlier writer it
\* holds what the later writer had read, so the earlier write is lost.
C2_LostUpdate ==
    \A p, q \in Procs :
        (Raced(p, q) /\ LastWriter(q))
            => /\ calls[p].err = "" /\ calls[q].err = ""
               /\ Table[calls[q].sid]
                    = <<Stringify(SetProp(calls[q].read, calls[q].key, calls[q].val))>>
               /\ GetProp(RowDoc(Table, calls[q].sid), calls[p].key)
                    = GetProp(calls[q].read, calls[p].key)
\* AsyncSqliteStore: both calls are done and the document holds one of the two keys
C2_Witness ==
    \E p, q \in Procs :
        /\ store = "async"
        /\ Raced(p, q) /\ LastWriter(q)
        /\ HasKey(RowDoc(Table, calls[q].sid), calls[q].key)
        /\ ~HasKey(RowDoc(Table, calls[q].sid), calls[p].key)

\* C3: while init() has not completed, a call of any AsyncSqliteStore method fails
\* at once with the uninitialised-store error, sends no command and leaves the
\* table as it was.
C3_UninitialisedFailsFast ==
    [][\A p \in Procs :
          (store = "async" /\ ~initialised /\ calls'[p] # calls[p])
              => /\ calls'[p].pc = "failed"
                 /\ calls'[p].err = "uninitialised"
                 /\ calls'[p].cmds = 0
                 /\ calls'[p].data = <<>>
                 /\ db' = db]_vars
\* a call fails while init() still awaits the schema command
C3_Witness ==
    /\ store = "async"
    /\ initpc = "awaiting"
    /\ \E p \in Procs : calls[p].op = "set" /\ calls[p].err = "uninitialised"

\* The table with the rows of every sid but sid removed.
Only(tbl, sid) == [s \in Sids |-> IF s = sid THEN tbl[s] ELSE <<>>]
\* The step call c takes next.
StepOf(tbl, c) ==
    IF c.pc = "idle"
    THEN (IF store = "sync" THEN SyncStart(tbl, c) ELSE AsyncStart(initialised, tbl, c))
    ELSE (IF store = "sync" THEN SyncResume(tbl, c) ELSE AsyncDeliver(initialised, tbl, c))
\* C9: calls on different sids do not interfere: every step of a call changes the
\* call of its own flow alone and no row but those of its sid, and its outcome
\* (the call's result and the rows of its sid) is what the same step gives on the
\* table without the rows of the other sids.
C9_SidsIndependent ==
    [][\A p \in Procs :
          calls'[p] # calls[p] =>
              /\ \A s \in Sids \ {calls'[p].sid} : Table'[s] = Table[s]
              /\ \A q \in Procs \ {p} : calls'[q] = calls[q]
              /\ \A c \in {IF Running(calls[p]) THEN calls[p]
                            ELSE NewCall(calls'[p].op, calls'[p].sid, calls'[p].key,
                                         calls'[p].val)} :
                    \A o \in {StepOf(Only(Table, c.sid), c)} :
                        /\ calls'[p] = Stamp(o, c.sid)
                        /\ Table'[c.sid] = o.tbl[c.sid]]_vars
\* two calls on different sids are under way, each on a sid that has a row
C9_Witness ==
    /\ calls[1].sid # calls[2].sid
    /\ calls[1].pc = "update"
    /\ calls[2].pc = "update"
    /\ HasRow(Table, calls[1].sid) /\ HasRow(Table, calls[2].sid)

\* C10: the table holds at most one row per sid in every reachable state.
C10_OneRowPerSid ==
    \A k \in StoreKinds, s \in Sids : Len(db[k][s]) <= 1
\* two first accesses to one sid raced: the second INSERT was refused
C10_Witness ==
    \E p, q \in Procs :
        /\ p # q
        /\ calls[p].sid = calls[q].sid
        /\ calls[p].err = "constraint"
        /\ calls[q].pc = "done"
        /\ Len(Table[calls[p].sid]) = 1

\* p is a completed clear and q a completed set on the same sid; q read the
\* document before p emptied it and wrote its own after
ClearRacedSet(p, q) ==
    /\ p # q
    /\ calls[p].op = "clear" /\ calls[q].op = "set"
    /\ calls[p].pc = "done" /\ calls[q].pc = "done"
    /\ calls[p].sid = calls[q].sid
    /\ calls[q].rver >= 0
    /\ calls[q].rver < calls[p].wver
    /\ calls[p].wver < calls[q].wver
\* C20: when a set reads the document, a clear on the same sid then completes, and
\* the set then persists, both complete without error and the stored document is
\* the snapshot of the set: every key the set had read is back, so a key that
\* existed only before the clear is in the document after it.
C20_ClearUndoneBySet ==
    \A p, q \in Procs :
        (ClearRacedSet(p, q) /\ LastWriter(q))
            => /\ calls[p].err = "" /\ calls[q].err = ""
               /\ Table[calls[q].sid]
                    = <<Stringify(SetProp(calls[q].read, calls[q].key, calls[q].val))>>
               /\ \A j \in Keys \ {calls[q].key} :
                     GetProp(RowDoc(Table, calls[q].sid), j) = GetProp(calls[q].read, j)
\* set(sid, k2, v) read a document with k1, clear(sid) completed, set persisted:
\* the document holds k1
C20_Witness ==
    \E p, q \in Procs :
        /\ ClearRacedSet(p, q) /\ LastWriter(q)
        /\ calls[q].key = "k2"
        /\ HasKey(calls[q].read, "k1")
        /\ HasKey(RowDoc(Table, calls[q].sid), "k1")

\* the methods that fetch the document with getSession
FetchOps == {"getSession", "get", "set", "delete"}
\* call c has sent the INSERT of getSession: its SELECT returned no row
InsertSent(c) ==
    /\ c.op \in FetchOps
    /\ \/ c.pc = "insert"
       \/ c.op \in {"getSession", "get"} /\ c.cmds = 2
       \/ c.op \in {"set", "delete"} /\ (c.cmds = 3 \/ c.err = "constraint")
\* the worker has answered the INSERT of call c
InsertAnswered(c) == InsertSent(c) /\ c.pc # "insert"
\* p and q are fetching calls of AsyncSqliteStore on one sid, and both have sent
\* the INSERT: both observed no row
BothInsert(p, q) ==
    /\ p # q
    /\ store = "async"
    /\ calls[p].sid = calls[q].sid
    /\ InsertSent(calls[p]) /\ InsertSent(calls[q])

\* C21: in AsyncSqliteStore, when two fetching calls (getSession, get, set, delete)
\* on one sid have both observed no row and both sent the INSERT, the INSERT the
\* worker runs first creates the row and the other is refused for the uniqueness of
\* id: once both are answered exactly one of the two calls has failed with the
\* constraint error, the other has not failed, and at every moment from the first
\* answer on the table holds exactly one row for the sid.
C21_GetOrCreateNotAtomic ==
    \A p, q \in Procs :
        BothInsert(p, q) =>
            /\ Len(Table[calls[p].sid]) <= 1
            /\ InsertAnswered(calls[p])
                => /\ Len(Table[calls[p].sid]) = 1
                   /\ calls[p].err \in {"", "constraint"}
                   /\ (calls[p].err = "constraint") = (calls[p].pc = "failed")
                   /\ ~InsertAnswered(calls[q]) => calls[p].err = ""
                   /\ InsertAnswered(calls[q])
                        => (calls[p].err = "constraint") # (calls[q].err = "constraint")
\* get and set raced on a sid with no row: both sent the INSERT, get failed with
\* the constraint error, set completed, and the table holds one row for the sid
C21_Witness ==
    \E p, q \in Procs :
        /\ BothInsert(p, q)
        /\ calls[p].op = "get" /\ calls[q].op = "set"
        /\ calls[p].pc = "failed" /\ calls[p].err = "constraint"
        /\ calls[q].pc = "done" /\ calls[q].cmds = 3
        /\ Len(Table[calls[p].sid]) = 1

\* C22: in SqliteStore the SELECT and the INSERT of getSession run in one step, so
\* no call ever fails with the constraint error and a fetching call holds its
\* document as soon as it has started; yet set awaits getSession before it
\* persists, so two set calls on one sid can both read before either writes, and
\* then both complete without error and the stored document is the snapshot of
\* the later writer: at the key of the earlier writer it holds what the later
\* writer had read.
C22_SyncLostUpdate ==
    store = "sync" =>
        /\ \A p \in Procs : calls[p].err # "constraint"
        /\ \A s \in Sids : Len(Table[s]) <= 1
        /\ \A p \in Procs :
              (calls[p].op \in FetchOps /\ calls[p].pc # "idle")
                  => /\ HasRow(Table, calls[p].sid)
                     /\ calls[p].pc \notin {"select", "insert"}
        /\ \A p, q \in Procs :
              (Raced(p, q) /\ LastWriter(q))
                  => /\ calls[p].pc = "done" /\ calls[q].pc = "done"
                     /\ RowDoc(Table, calls[q].sid)
                          = SetProp(calls[q].read, calls[q].key, calls[q].val)
                     /\ GetProp(RowDoc(Table, calls[q].sid), calls[p].key)
                          = GetProp(calls[q].read, calls[p].key)
\* SqliteStore: two set calls made the first access to a sid (the first inserted
\* the row, the second found it, neither failed), both read the empty document,
\* and the key of the earlier writer is not stored
C22_Witness ==
    \E p, q \in Procs :
        /\ store = "sync"
        /\ Raced(p, q) /\ LastWriter(q)
        /\ calls[p].cmds = 3 /\ calls[q].cmds = 2
        /\ calls[p].read = EmptyDoc /\ calls[q].read = EmptyDoc
        /\ calls[p].err = "" /\ calls[q].err = ""
        /\ ~HasKey(RowDoc(Table, calls[q].sid), calls[p].key)
        /\ HasKey(RowDoc(Table, calls[q].sid), calls[q].key)

\* this step is a step of a clear call of flow p: the call, or the worker's answer
ClearStep(p) ==
    /\ calls'[p].op = "clear"
    /\ calls'[p] # calls[p] \/ (ncalls' # ncalls /\ calls' = calls)

\* C23: no step of a clear call adds or removes a row, or touches the row of
\* another sid: the call completes without error after one command (unless
\* AsyncSqliteStore is uninitialised, when it fails and sends none), a sid that
\* had a row keeps it with the document {}, and a sid that had no row still has
\* none; a completed getSession, get, set or delete has a row for its sid.
C23_ClearKeepsRowSet ==
    /\ [][\A p \in Procs :
            ClearStep(p) =>
                /\ \A s \in Sids : Len(db'[store][s]) = Len(Table[s])
                /\ \A s \in Sids \ {calls'[p].sid} : db'[store][s] = Table[s]
                /\ calls'[p].pc \in {"update", "done", "failed"}
                /\ calls'[p].pc = "update" => db'[store] = Table
                /\ calls'[p].pc = "failed"
                     => /\ store = "async" /\ ~initialised
                        /\ calls'[p].err = "uninitialised" /\ calls'[p].cmds = 0
                        /\ db'[store] = Table
                /\ calls'[p].pc = "done"
                     => /\ calls'[p].err = "" /\ calls'[p].cmds = 1
                        /\ db'[store][calls'[p].sid]
                             = IF HasRow(Table, calls'[p].sid) THEN <<EmptyJson>> ELSE <<>>]_vars
    /\ [](\A p \in Procs :
            (calls[p].op \in FetchOps /\ calls[p].pc = "done")
                => HasRow(Table, calls[p].sid))
\* clear completed on a sid with no row and the sid still has none, while a
\* completed clear on another sid left its row with the document {}
C23_Witness ==
    \E p, q \in Procs :
        /\ calls[p].op = "clear" /\ calls[p].pc = "done" /\ calls[p].err = ""
        /\ ~HasRow(Table, calls[p].sid)
        /\ calls[q].op = "clear" /\ calls[q].pc = "done"
        /\ Table[calls[q].sid] = <<EmptyJson>>

(***************************************************************************)
(* Properties of the route handler (SpecHttp).                             *)
(***************************************************************************)
\* getClient returns in this step
GetClientReturns == client = NoClient /\ client' # NoClient
\* this step sets the cookie sid = value on the response, and no other cookie
Attaches(value) ==
    /\ Len(res'.cookies) = Len(res.cookies) + 1
    /\ SubSeq(res'.cookies, 1, Len(res.cookies)) = res.cookies
    /\ res'.cookies[Len(res'.cookies)].name = "sid"
    /\ res'.cookies[Len(res'.cookies)].value = value
\* getClient created the session of the handle it returns, and set its cookie
CreatedSession ==
    /\ calls'[1] # calls[1]
    /\ calls'[1].op = "createSession"
    /\ calls'[1].pc = "done"
    /\ calls'[1].cmds = 1
    /\ client'.sid = calls'[1].sid
    /\ ~HasRow(Table, client'.sid)
    /\ Table'[client'.sid] = <<EmptyJson>>
    /\ Attaches(client'.sid)
\* getClient bound the handle to the sid of the request and did nothing else
BoundToRequestSid ==
    /\ client'.sid = CookieSid(req).s
    /\ db' = db
    /\ calls' = calls
    /\ res' = res

\* C11 as stated: getClient calls createSession and sets the sid cookie if and only
\* if the request carries no sid cookie; when the request carries one, no session
\* is created, no cookie is set and the handle is bound to the sid of the request.
C11_CookieIffNoSidCookie ==
    [][GetClientReturns =>
          IF ~HasKey(req.cookies, "sid") THEN CreatedSession ELSE BoundToRequestSid]_vars
\* C11 as amended: getClient calls createSession and sets the sid cookie if and only
\* if the request carries no sid cookie or one whose value is empty; when the
\* request carries a sid cookie with a value, no session is created, no cookie is
\* set and the handle is bound to exactly that sid.
C11_CookieIffNoSidValue ==
    [][GetClientReturns =>
          IF ~HasKey(req.cookies, "sid") \/ CookieSid(req) = JStr("")
          THEN CreatedSession ELSE BoundToRequestSid]_vars
\* the request carried the sid of a stored session: a handle on it, no cookie set
C11_Witness ==
    /\ client # NoClient
    /\ CookieSid(req) = JStr(client.sid)
    /\ HasRow(Table, client.sid)
    /\ res.cookies = <<>>
    /\ calls[1] = NoCall

\* C12: the cookie getClient sets for a new session has, for every option the
\* caller supplied (expires, httpOnly, sameSite), exactly the supplied value, and
\* for every other option the default (now + 7 days, true, Strict).
C12_CookiePolicy ==
    \A i \in 1..Len(res.cookies) :
        (res.cookies[i].name = "sid" /\ res.cookies[i].value # "")
            => \A o \in {"expires", "httpOnly", "sameSite"} :
                  GetProp(res.cookies[i].options, o)
                    = IF HasKey(trace.supplied, o) THEN GetProp(trace.supplied, o)
                      ELSE CASE o = "expires" -> JDate(trace.now + 7 * 24 * 60 * 60 * 1000)
                             [] o = "httpOnly" -> JBool(TRUE)
                             [] o = "sameSite" -> JStr("Strict")

\* C13: destroy(res) clears the sid cookie on the response and does nothing else:
\* no Store call, no change to the table; and a get on the same sid afterwards, in
\* the same or in a later request, reads the document stored when destroy ran.
C13_DestroyOnlyClearsCookie ==
    /\ [][(~trace.destroyed /\ trace'.destroyed) =>
              /\ db' = db
              /\ calls' = calls
              /\ client' = client
              /\ Attaches("")
              /\ res'.cookies[Len(res'.cookies)].options = <<Prop("expires", JDate(0))>>]_vars
    /\ [](\A k \in Keys :
            (/\ trace.dsid \in Sids
             /\ calls[1].op = "get" /\ calls[1].sid = trace.dsid /\ calls[1].key = k
             /\ Finished(calls[1]) /\ calls[1].err # "uninitialised")
                => /\ calls[1].pc = "done"
                   /\ calls[1].ret = RefGet(trace.ddoc, k)
                   /\ DocOf(Table, trace.dsid) = trace.ddoc)
\* a later request presents the destroyed sid and reads a value stored before
C13_Witness ==
    /\ req.open
    /\ ~trace.destroyed
    /\ trace.dsid \in Sids
    /\ CookieSid(req) = JStr(trace.dsid)
    /\ calls[1].op = "get" /\ calls[1].sid = trace.dsid
    /\ calls[1].pc = "done"
    /\ calls[1].ret # JNull
    /\ res.cookies = <<>>

\* C14: the calls awaited on one ClientSession take effect in the order issued: the
\* stored document is the initial document with the operations of the contract
\* (set, delete, clear) applied one after another, every call succeeds, and a get
\* returns what get returns on that document.
C14_HandleOrder ==
    client # NoClient =>
        /\ DocOf(Table, client.sid) = trace.ref
        /\ Len(Table[client.sid]) <= 1
        /\ (Finished(calls[1]) /\ calls[1].err # "uninitialised") => calls[1].pc = "done"
        /\ (calls[1].op = "get" /\ calls[1].pc = "done")
              => calls[1].ret = RefGet(trace.ref, calls[1].key)
\* a set and then a get of the same key, on the session this request created
C14_Witness ==
    /\ client # NoClient
    /\ Len(res.cookies) = 1 /\ res.cookies[1].value = client.sid
    /\ ncalls = 2
    /\ calls[1].op = "get" /\ calls[1].pc = "done" /\ calls[1].ret = JStr("x")
    /\ trace.ref[calls[1].key] = JStr("x")

====
